---- MODULE Spec2Model ----
(***************************************************************************)
(* Model of ccxtbt/ccxtbroker.py: the CCXTBroker order bookkeeping        *)
(* (open_orders, notifs, positions, the cached cash and value), its       *)
(* operations _submit, cancel, close, next, get_notification, get_balance,*)
(* getcash, getvalue and getposition, and the exchange the store talks    *)
(* to.                                                                     *)
(*                                                                         *)
(* The exchange is the environment.  What it answers is an input of the   *)
(* operation that asks: every fetch and every cancel call draws its       *)
(* snapshot afresh, so the order's remote state may have changed in any   *)
(* way since the last call (or be the same), and a create, fetch, cancel  *)
(* or positions call may fail; a balance request is taken to be answered. *)
(* The model keeps of the exchange only how many order ids it has handed  *)
(* out (accepted), which fixes the id of the next order.                  *)
(*                                                                         *)
(* store is the store's balance cache (_cash, _value), which the broker   *)
(* reads; cash and value are the broker's own copies.                     *)
(*                                                                         *)
(* last is a history variable: what the most recent operation did (the    *)
(* exchange calls it made, the orders it notified, what it returned or    *)
(* raised).  The code does not keep it; the properties read it.           *)
(***************************************************************************)
EXTENDS Integers, Sequences, FiniteSets, TLC

VARIABLES mappings, open_orders, orders, notifs, positions, store, cash,
          value, accepted, last

vars == <<mappings, open_orders, orders, notifs, positions, store, cash,
          value, accepted, last>>

-----------------------------------------------------------------------------
(* Bounds of the model *)

\* orders the exchange accepts in one run (their ids are 1..MaxOrders)
MaxOrders == 2
\* fills the exchange reports for one order (their ids are 1..MaxFills)
MaxFills == 1
\* length up to which an order's executed_fills list is followed
MaxApplied == 2
\* largest size of a submission (0 is the malformed one)
MaxAmount == 1
\* largest price of a submission (0 is the malformed one)
MaxPrice == 1
\* largest figure of a balance the exchange reports
MaxBalance == 1
\* largest size of a remote position
MaxPosition == 2
\* most positions the exchange lists in one answer
MaxRows == 1

OrderIds == 1..MaxOrders
\* the instruments positions are kept for
Instruments == {"BTC/USD", "ETH/USD"}
\* the data feeds orders are submitted on
Datas == {"BTC/USD"}
Sides == {"buy", "sell"}

Range(s) == {s[i] : i \in 1..Len(s)}

\* list.remove(x): drops the first element equal to x
RECURSIVE Remove(_, _)
Remove(s, x) ==
  IF s = <<>> THEN <<>>
  ELSE IF Head(s) = x THEN Tail(s)
  ELSE <<Head(s)>> \o Remove(Tail(s), x)

\* how many times x occurs in s
RECURSIVE Count(_, _)
Count(s, x) ==
  IF s = <<>> THEN 0
  ELSE (IF Head(s) = x THEN 1 ELSE 0) + Count(Tail(s), x)

-----------------------------------------------------------------------------
(* The mapping table *)

\* the class attribute CCXTBroker.mappings
DefaultMappings ==
  [closed_order   |-> [key |-> "status", value |-> "closed"],
   canceled_order |-> [key |-> "status", value |-> "canceled"]]

\* the broker_mapping of the class docstring: canceled is read from 'result'
SplitMappings ==
  [closed_order   |-> [key |-> "status", value |-> "closed"],
   canceled_order |-> [key |-> "result", value |-> "1"]]

\* ccxt_order[mappings['closed_order']['key']] == mappings['closed_order']['value']
IsClosed(m, snap) == snap[m.closed_order.key] = m.closed_order.value

\* ccxt_order[mappings['canceled_order']['key']] == mappings['canceled_order']['value']
IsCanceled(m, snap) == snap[m.canceled_order.key] = m.canceled_order.value

-----------------------------------------------------------------------------
(* Exchange snapshots *)

\* one fill of ccxt_order['trades']: a dict with an 'id'
Fill(f) == [type |-> "dict", id |-> f]

\* the value of fill['id']
FillId(fill) == [type |-> "str", v |-> fill.id]

\* the exchange reports fills cumulatively: the first n fills of the order
RECURSIVE FillsUpTo(_)
FillsUpTo(n) == IF n = 0 THEN <<>> ELSE Append(FillsUpTo(n - 1), Fill(n))

\* ccxt_order['trades']: no such key, None, or a list of fills
TradesValues ==
  {[kind |-> "absent", fills |-> <<>>], [kind |-> "none", fills |-> <<>>]}
    \cup {[kind |-> "list", fills |-> FillsUpTo(n)] : n \in 0..MaxFills}

\* the values of the field the canceled condition reads, beside 'status'
ResultValues(m) ==
  IF m.canceled_order.key = "result" THEN {"0", "1"} ELSE {"0"}

\* the values of 'status': the ones the mapping table tells apart, and open
StatusValues(m) ==
  {"open"} \cup {c.value : c \in {c \in {m.closed_order, m.canceled_order} :
                                  c.key = "status"}}

\* what fetch_order can return for an order
Snapshots(m) ==
  [status : StatusValues(m), result : ResultValues(m), trades : TradesValues]

\* the snapshots as _submit and cancel read them: they look at no fills
PlainSnapshots(m) == {s \in Snapshots(m) : s.trades.kind = "none"}

\* the exchange call raises instead of returning a snapshot
Failure ==
  [status |-> "ExchangeError", result |-> "0",
   trades |-> [kind |-> "none", fills |-> <<>>]]

\* the snapshot _submit fetches: s, with the side and amount of the order
\* just created
Fetched(s, side, amount) ==
  [status |-> s.status, result |-> s.result, trades |-> s.trades,
   side |-> side, amount |-> amount]

-----------------------------------------------------------------------------
(* Order records *)

\* no CCXTOrder of that id was built
NoOrder ==
  [status |-> "NoOrder", side |-> "buy", data |-> "BTC/USD", size |-> 0,
   price |-> 0, executed_fills |-> <<>>]

\* CCXTOrder.__init__: side and size come from the fetched snapshot;
\* OrderBase.__init__ negates the size of a sell
CCXTOrder(data, ccxt_order) ==
  [status |-> "Created", side |-> ccxt_order.side, data |-> data,
   size |-> IF ccxt_order.side = "buy" THEN ccxt_order.amount
            ELSE 0 - ccxt_order.amount,
   price |-> 0, executed_fills |-> <<>>]

\* the orders a caller holds a reference to
Tracked == {o \in OrderIds : orders[o].status # "NoOrder"}

-----------------------------------------------------------------------------
(* The store's balance cache *)

\* Python's None, and a value that is not None
None == [none |-> TRUE, v |-> 0]
Some(x) == [none |-> FALSE, v |-> x]

\* what the exchange's balance request can answer for the store's currency
Balances ==
  {[free |-> f, total |-> t] : f \in 1..MaxBalance, t \in 1..MaxBalance}

\* store._cash and store._value when the broker is constructed
InitialStore == [_cash |-> 0, _value |-> 0]

\* CCXTStore.get_balance: a balance request, kept in _cash and _value
StoreGetBalance(balance) == [_cash |-> balance.free, _value |-> balance.total]

-----------------------------------------------------------------------------
(* The log of one operation *)

Call(fn, id) == [fn |-> fn, id |-> id]

NoCalls == <<>>

\* the arguments of an operation: the order cancel is called on, the size
\* and price of a submission
Args(order, amount, price) == [order |-> order, amount |-> amount, price |-> price]

NoArgs == Args(0, 0, 0)

IsFetch(c) == c.fn = "fetch_order"
IsCancelCall(c) == c.fn = "cancel_order"

\* the ids of the fetch_order calls of a log, in order
FetchIds(calls) ==
  LET f == SelectSeq(calls, IsFetch) IN [i \in 1..Len(f) |-> f[i].id]

\* of the orders ids, whose answers are given by rem, those whose snapshot
\* meets the closed, the canceled condition
Seen(m, ids, rem) ==
  [closed |-> {o \in ids : IsClosed(m, rem[o])},
   canceled |-> {o \in ids : IsCanceled(m, rem[o])}]

NoneSeen == [closed |-> {}, canceled |-> {}]

\* op, args: the operation and its arguments; ret: the order returned
\* (0: None); raised: the exception that left it; calls: the exchange calls
\* made, in order; notified: the orders passed to notify, in order;
\* posUpdated: the orders whose position update was made; closedSeen,
\* canceledSeen: the orders for which a snapshot the exchange returned to the
\* operation met the closed, the canceled condition; prevNotified,
\* prevPosUpdated: notified and posUpdated of the pass right before this pass
Log(op, args, ret, b, seen, prevNotified, prevPosUpdated) ==
  [op |-> op, args |-> args, ret |-> ret, raised |-> b.raised,
   calls |-> b.calls, notified |-> b.notified, posUpdated |-> b.posUpdated,
   closedSeen |-> seen.closed, canceledSeen |-> seen.canceled,
   prevNotified |-> prevNotified, prevPosUpdated |-> prevPosUpdated]

\* nothing called, notified or raised
Quiet ==
  [raised |-> "", calls |-> NoCalls, notified |-> <<>>, posUpdated |-> <<>>]

-----------------------------------------------------------------------------
(* Initial state: CCXTBroker.__init__ *)

Init ==
  /\ mappings \in {DefaultMappings, SplitMappings}
  /\ open_orders = <<>>
  /\ orders = [o \in OrderIds |-> NoOrder]
  /\ notifs = <<>>
  /\ positions = [d \in Instruments |-> 0]
  /\ store = InitialStore
  /\ cash = None
  /\ value = None
  /\ accepted = 0
  /\ last = Log("init", NoArgs, 0, Quiet, NoneSeen, {}, {})

-----------------------------------------------------------------------------
(* The broker's working state inside one call *)

\* the broker's fields at the start of an operation, with an empty log
Start ==
  [open_orders |-> open_orders, orders |-> orders, notifs |-> notifs,
   positions |-> positions, store |-> store, cash |-> cash, value |-> value,
   calls |-> NoCalls, notified |-> <<>>, posUpdated |-> <<>>, raised |-> ""]

\* an exchange call
call(b, fn, id) == [b EXCEPT !.calls = Append(@, Call(fn, id))]

\* an exception leaves the operation
raise(b, exc) == [b EXCEPT !.raised = exc]

\* notify dropping an order that is already waiting in the queue
notifyCoalescing(b, o) ==
  IF o \in Range(b.notifs) THEN [b EXCEPT !.notified = Append(@, o)]
  ELSE [b EXCEPT !.notifs = Append(@, o), !.notified = Append(@, o)]

\* CCXTBroker.notify: self.notifs.put(order)
notify(b, o) ==
  [b EXCEPT !.notifs = Append(@, o), !.notified = Append(@, o)]

\* CCXTBroker.get_balance: store.get_balance() makes one balance request to
\* the exchange (balance is its answer), then cash and value are copied from
\* the store
get_balance(b, balance) ==
  LET st == StoreGetBalance(balance)
  IN [call(b, "fetch_balance", 0) EXCEPT !.store = st,
                                         !.cash = Some(st._cash),
                                         !.value = Some(st._value)]

\* Python's == between a fill (a dict) and an element of executed_fills
\* (the str stored by executed_fills.append(fill['id'])): values of
\* different types are never equal
PyEq(a, b) == a.type = b.type /\ a = b

\* fill in o_order.executed_fills
PyIn(x, list) == \E i \in 1..Len(list) : PyEq(x, list[i])

\* the loop over ccxt_order['trades']: every fill that is not found in
\* executed_fills is executed and its id appended
RECURSIVE ApplyFills(_, _)
ApplyFills(executed_fills, fills) ==
  IF fills = <<>> THEN executed_fills
  ELSE ApplyFills(
         IF ~PyIn(Head(fills), executed_fills)
           THEN Append(executed_fills, FillId(Head(fills)))
           ELSE executed_fills,
         Tail(fills))

\* ClosedBranch without its open_orders.remove
ClosedBranchKeepsOpen(b, o, balance) ==
  LET ord == b.orders[o]
      b1 == [b EXCEPT !.positions[ord.data] = @ + ord.size,
                      !.posUpdated = Append(@, o),
                      !.orders[o].status = "Completed"]
  IN get_balance(notify(b1, o), balance)

\* the closed branch of next(): position update, completed(), notify,
\* open_orders.remove, get_balance
ClosedBranch(b, o, balance) ==
  LET ord == b.orders[o]
      b1 == [b EXCEPT !.positions[ord.data] = @ + ord.size,
                      !.posUpdated = Append(@, o),
                      !.orders[o].status = "Completed"]
      b2 == notify(b1, o)
      b3 == [b2 EXCEPT !.open_orders = Remove(@, o)]
  IN get_balance(b3, balance)

\* CanceledBranch without its o_order.cancel()
CanceledBranchUnmarked(b, o) ==
  IF o \notin Range(b.open_orders)
    THEN raise(b, "ValueError")
    ELSE notify([b EXCEPT !.open_orders = Remove(@, o)], o)

\* the canceled branch of next(): open_orders.remove (ValueError when the
\* order is no longer in the list), cancel(), notify
CanceledBranch(b, o) ==
  IF o \notin Range(b.open_orders)
    THEN raise(b, "ValueError")
    ELSE notify([b EXCEPT !.open_orders = Remove(@, o),
                          !.orders[o].status = "Canceled"], o)

\* one iteration of the loop of next() for o_order = o: ccxt_order is what
\* the fetch answers, balance what the balance request of the closed branch
\* answers
ReconcileOrder(m, b, o, ccxt_order, balance) ==
  LET b1 == call(b, "fetch_order", o)
  IN IF ccxt_order = Failure THEN raise(b1, "ExchangeError")
     ELSE IF ccxt_order.trades.kind = "absent"
       THEN raise(b1, "KeyError")
     ELSE
       LET b2 == IF ccxt_order.trades.kind # "none"
                   THEN [b1 EXCEPT !.orders[o].executed_fills =
                           ApplyFills(@, ccxt_order.trades.fills)]
                   ELSE b1
           b3 == IF IsClosed(m, ccxt_order) THEN ClosedBranch(b2, o, balance)
                 ELSE b2
       IN IF IsCanceled(m, ccxt_order) THEN CanceledBranch(b3, o) ELSE b3

\* ReconcileAll with each order's step in a try/except that goes on to the
\* next order
RECURSIVE ReconcileAllKeepsGoing(_, _, _, _, _)
ReconcileAllKeepsGoing(m, b, todo, rem, bal) ==
  IF todo = <<>> THEN b
  ELSE ReconcileAllKeepsGoing(m,
         ReconcileOrder(m, b, Head(todo), rem[Head(todo)], bal[Head(todo)]),
         Tail(todo), rem, bal)

\* for o_order in list(self.open_orders): an exception ends the loop
RECURSIVE ReconcileAll(_, _, _, _, _)
ReconcileAll(m, b, todo, rem, bal) ==
  IF todo = <<>> \/ b.raised # "" THEN b
  ELSE ReconcileAll(m,
         ReconcileOrder(m, b, Head(todo), rem[Head(todo)], bal[Head(todo)]),
         Tail(todo), rem, bal)

-----------------------------------------------------------------------------
(* Operations *)

\* the part of the previous pass the next pass is compared with
PrevNotified == IF last.op = "next" THEN Range(last.notified) ELSE {}
PrevPosUpdated == IF last.op = "next" THEN Range(last.posUpdated) ELSE {}

\* the orders whose fetch the pass made and the exchange answered
Answered(calls, rem) == {o \in Range(FetchIds(calls)) : rem[o] # Failure}

\* CCXTBroker.next: one reconciliation pass.  rem is what the exchange
\* answers to the fetch of each open order: a snapshot or a failure; bal is
\* what it answers to the balance request made when that order closes
next ==
  /\ \E rem \in [Range(open_orders) -> Snapshots(mappings) \cup {Failure}],
        bal \in [Range(open_orders) -> Balances] :
       /\ \A o \in Range(open_orders) :
            Len(orders[o].executed_fills) + Len(rem[o].trades.fills)
              <= MaxApplied
       /\ LET b == ReconcileAll(mappings, Start, open_orders, rem, bal)
          IN /\ open_orders' = b.open_orders
             /\ orders' = b.orders
             /\ notifs' = b.notifs
             /\ positions' = b.positions
             /\ store' = b.store
             /\ cash' = b.cash
             /\ value' = b.value
             /\ last' = Log("next", NoArgs, 0, b,
                            Seen(mappings, Answered(b.calls, rem), rem),
                            PrevNotified, PrevPosUpdated)
  /\ UNCHANGED <<mappings, accepted>>

\* SubmitBody rejecting only a submission whose size and price are both 0
SubmitBodyBothZero(m, b, id, data, side, amount, price, ccxt_order, reply) ==
  IF amount = 0 /\ price = 0 THEN b
  ELSE
    LET b1 == call(b, "create_order", 0)
    IN IF reply = "create fails" THEN raise(b1, "ExchangeError")
       ELSE
         LET b2 == call(b1, "fetch_order", id)
         IN IF reply = "fetch fails" THEN raise(b2, "ExchangeError")
            ELSE
              LET order == [CCXTOrder(data, Fetched(ccxt_order, side, amount))
                              EXCEPT !.price = price]
                  b3 == [b2 EXCEPT !.orders[id] = order,
                                   !.open_orders = Append(@, id)]
              IN notify(b3, id)

\* SubmitBody notifying only an order whose snapshot is still pending
SubmitBodyNotifiesPending(m, b, id, data, side, amount, price, ccxt_order, reply) ==
  IF amount = 0 \/ price = 0 THEN b
  ELSE
    LET b1 == call(b, "create_order", 0)
    IN IF reply = "create fails" THEN raise(b1, "ExchangeError")
       ELSE
         LET b2 == call(b1, "fetch_order", id)
         IN IF reply = "fetch fails" THEN raise(b2, "ExchangeError")
            ELSE
              LET order == [CCXTOrder(data, Fetched(ccxt_order, side, amount))
                              EXCEPT !.price = price]
                  b3 == [b2 EXCEPT !.orders[id] = order,
                                   !.open_orders = Append(@, id)]
              IN IF IsClosed(m, ccxt_order) THEN b3 ELSE notify(b3, id)

\* the body of CCXTBroker._submit; the exchange gives the new order the id
\* accepted + 1 and echoes side, amount and price; ccxt_order is what the
\* fetch of the new order answers, reply says which exchange call fails
SubmitBody(m, b, id, data, side, amount, price, ccxt_order, reply) ==
  IF amount = 0 \/ price = 0 THEN b
  ELSE
    LET b1 == call(b, "create_order", 0)
    IN IF reply = "create fails" THEN raise(b1, "ExchangeError")
       ELSE
         LET b2 == call(b1, "fetch_order", id)
         IN IF reply = "fetch fails" THEN raise(b2, "ExchangeError")
            ELSE
              LET order == [CCXTOrder(data, Fetched(ccxt_order, side, amount))
                              EXCEPT !.price = price]
                  b3 == [b2 EXCEPT !.orders[id] = order,
                                   !.open_orders = Append(@, id)]
              IN notify(b3, id)

\* the state after _submit
Submitted(data, side, amount, price, ccxt_order, reply) ==
  LET id == accepted + 1
      b == SubmitBody(mappings, Start, id, data, side, amount, price,
                      ccxt_order, reply)
  IN /\ open_orders' = b.open_orders
     /\ orders' = b.orders
     /\ notifs' = b.notifs
     /\ accepted' = IF Len(b.calls) > 0 /\ reply # "create fails"
                      THEN id ELSE accepted
     /\ last' = Log("_submit", Args(0, amount, price),
                    IF b.raised = "" /\ Len(b.calls) > 0 THEN id ELSE 0, b,
                    IF FetchIds(b.calls) # <<>> /\ reply = "ok"
                      THEN Seen(mappings, {id}, [o \in {id} |-> ccxt_order])
                      ELSE NoneSeen,
                    {}, {})
     /\ UNCHANGED <<mappings, positions, store, cash, value>>

\* CCXTBroker._submit, as buy and sell call it
_submit ==
  \E amount \in 0..MaxAmount, price \in 0..MaxPrice :
    IF amount = 0 \/ price = 0
      THEN Submitted("BTC/USD", "buy", amount, price, Failure, "ok")
      ELSE /\ accepted < MaxOrders
           /\ \E data \in Datas, side \in Sides,
                 ccxt_order \in PlainSnapshots(mappings),
                 reply \in {"ok", "create fails", "fetch fails"} :
                Submitted(data, side, amount, price, ccxt_order, reply)

\* CancelCleanup with only the remove inside the try: cancel() and notify
\* run whether or not the order was in the list
CancelCleanupUnguarded(b, o) ==
  notify([b EXCEPT !.open_orders = Remove(@, o),
                   !.orders[o].status = "Canceled"], o)

\* CancelCleanup without its open_orders.remove
CancelCleanupKeepsOpen(b, o) ==
  IF o \in Range(b.open_orders)
    THEN notify([b EXCEPT !.orders[o].status = "Canceled"], o)
    ELSE b

\* CancelCleanup without the except clause: the ValueError of remove leaves
\* cancel()
CancelCleanupRaises(b, o) ==
  IF o \in Range(b.open_orders)
    THEN notify([b EXCEPT !.open_orders = Remove(@, o),
                          !.orders[o].status = "Canceled"], o)
    ELSE raise(b, "ValueError")

\* the cleanup of cancel() once the exchange says canceled: remove, cancel,
\* notify, with the ValueError of remove swallowed
CancelCleanup(b, o) ==
  IF o \in Range(b.open_orders)
    THEN notify([b EXCEPT !.open_orders = Remove(@, o),
                          !.orders[o].status = "Canceled"], o)
    ELSE b

\* CancelBody without the test of the fetched snapshot: it cancels blindly
CancelBodyBlind(m, b, o, ccxt_order, resp) ==
  LET b1 == call(b, "fetch_order", o)
  IN IF ccxt_order = Failure THEN raise(b1, "ExchangeError")
     ELSE
       LET b2 == call(b1, "cancel_order", o)
       IN IF resp = Failure THEN raise(b2, "ExchangeError")
          ELSE IF IsCanceled(m, resp)
            THEN CancelCleanup(b2, o)
          ELSE b2

\* the body of CCXTBroker.cancel(order) for order o: ccxt_order is what the
\* fetch answers, resp what the cancel call answers
CancelBody(m, b, o, ccxt_order, resp) ==
  LET b1 == call(b, "fetch_order", o)
  IN IF ccxt_order = Failure THEN raise(b1, "ExchangeError")
     ELSE IF IsClosed(m, ccxt_order) THEN b1
     ELSE
       LET b2 == call(b1, "cancel_order", o)
       IN IF resp = Failure THEN raise(b2, "ExchangeError")
          ELSE IF IsCanceled(m, resp)
            THEN CancelCleanup(b2, o)
          ELSE b2

\* CCXTBroker.cancel(order), on any order the caller holds
cancel ==
  \E o \in Tracked, ccxt_order \in PlainSnapshots(mappings) \cup {Failure},
     resp \in PlainSnapshots(mappings) \cup {Failure} :
    LET b == CancelBody(mappings, Start, o, ccxt_order, resp)
    IN /\ open_orders' = b.open_orders
       /\ orders' = b.orders
       /\ notifs' = b.notifs
       /\ last' = Log("cancel", Args(o, 0, 0), IF b.raised = "" THEN o ELSE 0, b,
                      [closed |-> {x \in {o} : ccxt_order # Failure
                                                /\ IsClosed(mappings, ccxt_order)},
                       canceled |-> {x \in {o} :
                                       /\ SelectSeq(b.calls, IsCancelCall) # <<>>
                                       /\ resp # Failure
                                       /\ IsCanceled(mappings, resp)}],
                      {}, {})
       /\ UNCHANGED <<mappings, positions, store, cash, value, accepted>>

\* CCXTBroker.get_notification: notifs.get(False), None when empty
get_notification ==
  /\ last' = Log("get_notification", NoArgs,
                 IF notifs = <<>> THEN 0 ELSE Head(notifs), Quiet, NoneSeen,
                 {}, {})
  /\ notifs' = IF notifs = <<>> THEN notifs ELSE Tail(notifs)
  /\ UNCHANGED <<mappings, open_orders, orders, positions, store, cash,
                 value, accepted>>

\* CCXTBroker.get_balance(), called by the engine: balance is what the
\* exchange answers to the store's balance request
get_balance_call ==
  \E balance \in Balances :
    LET b == get_balance(Start, balance)
    IN /\ store' = b.store
       /\ cash' = b.cash
       /\ value' = b.value
       /\ last' = Log("get_balance", NoArgs, <<b.cash.v, b.value.v>>, b,
                      NoneSeen, {}, {})
       /\ UNCHANGED <<mappings, open_orders, orders, notifs, positions,
                      accepted>>

\* getcash asking the exchange, as the call commented out in it would
getcashFresh ==
  \E balance \in Balances :
    LET b == get_balance(Start, balance)
    IN /\ store' = b.store
       /\ cash' = b.cash
       /\ value' = b.value
       /\ last' = Log("getcash", NoArgs, b.cash.v, b, NoneSeen, {}, {})
       /\ UNCHANGED <<mappings, open_orders, orders, notifs, positions,
                      accepted>>

\* CCXTBroker.getcash: self.cash = self.store._cash; return self.cash
getcash ==
  /\ cash' = Some(store._cash)
  /\ last' = Log("getcash", NoArgs, store._cash, Quiet, NoneSeen, {}, {})
  /\ UNCHANGED <<mappings, open_orders, orders, notifs, positions, store,
                 value, accepted>>

\* CCXTBroker.getvalue: self.value = self.store._value; return self.value
getvalue ==
  /\ value' = Some(store._value)
  /\ last' = Log("getvalue", NoArgs, store._value, Quiet, NoneSeen, {}, {})
  /\ UNCHANGED <<mappings, open_orders, orders, notifs, positions, store,
                 cash, accepted>>

\* CCXTBroker.getposition(data): the position of the instrument, made on
\* first access by the defaultdict
getposition ==
  \E data \in Instruments :
    /\ last' = Log("getposition", [NoArgs EXCEPT !.order = data],
                   positions[data], Quiet, NoneSeen, {}, {})
    /\ UNCHANGED <<mappings, open_orders, orders, notifs, positions, store,
                   cash, value, accepted>>

\* price=None, the default of buy() and sell(): a price that is not 0
NoPrice == -1

\* the symbols the exchange lists positions under
RemoteSymbols == {"BTCUSD", "ETHUSD"}

\* data.p.dataname.replace('/', '')
Symbol(data) == IF data = "BTC/USD" THEN "BTCUSD" ELSE "ETHUSD"

\* one position of the exchange's answer: a symbol and its signed amount
PositionRows ==
  [symbol : RemoteSymbols, positionAmt : (0 - MaxPosition)..MaxPosition]

\* what store.get_binance_positions() can answer: a list of positions
OpenPositions == UNION {[1..n -> PositionRows] : n \in 0..MaxRows}

\* the sizes close() can be called with: None or a number
CloseSizes == {None} \cup {Some(n) : n \in (0 - MaxAmount)..MaxAmount}

abs(x) == IF x < 0 THEN 0 - x ELSE x

\* [p['positionAmt'] for p in open_positions if p['symbol'] == symbol][0],
\* None when the list is empty (IndexError)
PosSize(open_positions, symbol) ==
  LET found == SelectSeq(open_positions, LAMBDA p : p.symbol = symbol)
  IN IF found = <<>> THEN None ELSE Some(found[1].positionAmt)

\* CloseBody offsetting in the direction of the position: buy when long
CloseBodySameSide(m, b, id, data, size, all, open_positions, ccxt_order, reply) ==
  LET b1 == call(b, "fetch_positions", 0)
      possize == PosSize(open_positions, Symbol(data))
  IN IF reply = "positions fail" THEN raise(b1, "ExchangeError")
     ELSE IF all \/ possize.none THEN b1
     ELSE
       LET sz == abs(IF ~size.none THEN size.v ELSE possize.v)
       IN IF possize.v > 0
            THEN SubmitBody(m, b1, id, data, "buy", sz, NoPrice, ccxt_order,
                            reply)
          ELSE IF possize.v < 0
            THEN SubmitBody(m, b1, id, data, "sell", sz, NoPrice, ccxt_order,
                            reply)
          ELSE b1

\* the body of CCXTBroker.close(owner, data, size, all): open_positions is
\* what the exchange answers to the positions request; ccxt_order and reply
\* are those of the submission close() makes through sell() or buy()
CloseBody(m, b, id, data, size, all, open_positions, ccxt_order, reply) ==
  LET b1 == call(b, "fetch_positions", 0)
      possize == PosSize(open_positions, Symbol(data))
  IN IF reply = "positions fail" THEN raise(b1, "ExchangeError")
     ELSE IF all \/ possize.none THEN b1
     ELSE
       LET sz == abs(IF ~size.none THEN size.v ELSE possize.v)
       IN IF possize.v > 0
            THEN SubmitBody(m, b1, id, data, "sell", sz, NoPrice, ccxt_order,
                            reply)
          ELSE IF possize.v < 0
            THEN SubmitBody(m, b1, id, data, "buy", sz, NoPrice, ccxt_order,
                            reply)
          ELSE b1

IsCreate(c) == c.fn = "create_order"

\* the state after close()
Closed(data, size, all, open_positions, ccxt_order, reply) ==
  LET id == accepted + 1
      b == CloseBody(mappings, Start, id, data, size, all, open_positions,
                     ccxt_order, reply)
      created == SelectSeq(b.calls, IsCreate) # <<>>
  IN /\ created => accepted < MaxOrders
     /\ open_orders' = b.open_orders
     /\ orders' = b.orders
     /\ notifs' = b.notifs
     /\ accepted' = IF created /\ reply # "create fails" THEN id ELSE accepted
     /\ last' = Log("close",
                    [order |-> 0, amount |-> size, price |-> NoPrice,
                     data |-> data, all |-> all,
                     possize |-> IF reply = "positions fail" THEN None
                                 ELSE PosSize(open_positions, Symbol(data))],
                    IF b.raised = "" /\ id \in Range(b.open_orders)
                      THEN id ELSE 0,
                    b,
                    IF id \in Range(b.open_orders)
                      THEN Seen(mappings, {id}, [o \in {id} |-> ccxt_order])
                      ELSE NoneSeen,
                    {}, {})
     /\ UNCHANGED <<mappings, positions, store, cash, value>>

\* CCXTBroker.close(owner, data, size, all)
close ==
  \E data \in Datas, size \in CloseSizes, all \in BOOLEAN :
    \/ Closed(data, size, all, <<>>, Failure, "positions fail")
    \/ \E open_positions \in OpenPositions :
         LET possize == PosSize(open_positions, Symbol(data))
         IN IF all \/ possize.none \/ possize.v = 0
                \/ (~size.none /\ size.v = 0)
              THEN Closed(data, size, all, open_positions, Failure, "ok")
              ELSE \/ \E ccxt_order \in PlainSnapshots(mappings) :
                        Closed(data, size, all, open_positions, ccxt_order,
                               "ok")
                   \/ \E reply \in {"create fails", "fetch fails"} :
                        Closed(data, size, all, open_positions, Failure, reply)

-----------------------------------------------------------------------------
(* Specifications *)

\* submissions, cancellations and reconciliation passes in any order
Next ==
  \/ next
  \/ _submit
  \/ cancel

Spec == Init /\ [][Next]_vars

\* the engine also takes the notifications out of the queue
QueueNext ==
  \/ next
  \/ _submit
  \/ cancel
  \/ get_notification

\* CCXTBroker() without a broker_mapping: the class's own mappings
DefaultInit == Init /\ mappings = DefaultMappings

QueueSpec == DefaultInit /\ [][QueueNext]_vars

\* the broker starts when the exchange has already handed out all of its
\* order ids but one
LateInit ==
  /\ mappings \in {DefaultMappings, SplitMappings}
  /\ open_orders = <<>>
  /\ orders = [o \in OrderIds |-> NoOrder]
  /\ notifs = <<>>
  /\ positions = [d \in Instruments |-> 0]
  /\ store = InitialStore
  /\ cash = None
  /\ value = None
  /\ accepted = MaxOrders - 1
  /\ last = Log("init", NoArgs, 0, Quiet, NoneSeen, {}, {})

\* the engine also asks for cash, value and positions
CashNext ==
  \/ next
  \/ _submit
  \/ cancel
  \/ get_notification
  \/ getposition
  \/ get_balance_call
  \/ getcash
  \/ getvalue

CashSpec == LateInit /\ [][CashNext]_vars

\* the engine closes positions, and the orders close() submits are polled
\* and cancelled like any other
CloseNext ==
  \/ close
  \/ next
  \/ cancel

CloseSpec == LateInit /\ [][CloseNext]_vars

\* the engine calls next() on every tick: a pass that has something to do is
\* eventually made
LiveSpec == Spec /\ WF_vars(next)

-----------------------------------------------------------------------------
(* Properties *)

Terminal(order) == order.status \in {"Completed", "Canceled"}

\* C1: no order's applied-fill list (executed_fills) ever holds the same
\* fill identifier twice, whatever fills the exchange repeats in later polls.
C1_NoFillAppliedTwice ==
  \A o \in OrderIds :
    \A i, j \in 1..Len(orders[o].executed_fills) :
      i # j => orders[o].executed_fills[i] # orders[o].executed_fills[j]

\* C2: after a reconciliation pass, every order whose fetched snapshot met
\* the closed or the canceled condition was notified exactly once by the pass
\* and is no longer in open_orders.
C2_TerminalNotifiedOnceAndRemoved ==
  last.op = "next" =>
    \A o \in last.closedSeen \cup last.canceledSeen :
      Count(last.notified, o) = 1 /\ o \notin Range(open_orders)

\* C3: a reconciliation pass that fetched a snapshot meeting both the closed
\* and the canceled condition (and carrying a fill list) does not raise.
C3_BothConditionsDoNotRaise ==
  (/\ last.op = "next"
   /\ last.closedSeen \cap last.canceledSeen # {}
   /\ last.raised # "KeyError")
    => last.raised = ""

\* C4 as stated: when the fetch of one open order fails during a pass, every
\* order that was in open_orders at the start of the pass is still fetched in
\* that pass.
C4_OthersStillFetched ==
  [][(last'.op = "next" /\ last'.raised = "ExchangeError")
       => Range(open_orders) \subseteq Range(FetchIds(last'.calls))]_vars

\* C4 as amended: when the fetch of an open order fails during a pass, the
\* pass ends there: the fetches made are those of the orders up to the failing
\* one, in the order of open_orders, and the failing order and every order
\* after it keep their state, stay in open_orders and are not notified.
C4_FailedFetchEndsPass ==
  [][(last'.op = "next" /\ last'.raised = "ExchangeError")
       => LET ids == FetchIds(last'.calls)
              k == Len(ids)
          IN /\ k >= 1
             /\ ids = SubSeq(open_orders, 1, k)
             /\ \A j \in k..Len(open_orders) :
                  /\ orders'[open_orders[j]] = orders[open_orders[j]]
                  /\ open_orders[j] \in Range(open_orders')
                  /\ open_orders[j] \notin Range(last'.notified)]_vars

\* a pass failed on the fetch of its first order with a second order open
C4_Witness ==
  /\ last.op = "next"
  /\ last.raised = "ExchangeError"
  /\ Len(last.calls) = 1
  /\ Len(open_orders) = 2

\* C5: of two reconciliation passes run one right after the other, whatever
\* the exchange answers in the second (the same snapshots included), the
\* second notifies no order the first notified and updates the position for
\* no order the first updated it for.
C5_SecondPassRepeatsNothing ==
  last.op = "next" =>
    /\ Range(last.notified) \cap last.prevNotified = {}
    /\ Range(last.posUpdated) \cap last.prevPosUpdated = {}

\* a second pass that fetched an order, right after a pass that completed one
C5_Witness ==
  /\ last.op = "next"
  /\ last.prevPosUpdated # {}
  /\ last.calls # NoCalls

\* C6: a terminal order keeps its terminal state and is never notified again,
\* and the operation that makes an order terminal notifies it exactly once.
C6_OneTerminalStateOneNotification ==
  [][\A o \in OrderIds :
       /\ Terminal(orders[o])
            => /\ orders'[o].status = orders[o].status
               /\ Count(notifs', o) <= Count(notifs, o)
       /\ (~Terminal(orders[o]) /\ Terminal(orders'[o]))
            => Count(notifs', o) = Count(notifs, o) + 1]_vars

\* cancel() got a canceled answer for an order a pass had already completed
C6_Witness ==
  /\ last.op = "cancel"
  /\ last.args.order \in last.canceledSeen
  /\ orders[last.args.order].status = "Completed"

\* C7: a submission of size 0 or price 0 returns no order, makes no exchange
\* call and leaves open_orders and the notification queue as they were.
C7_MalformedSubmissionDoesNothing ==
  [][(last'.op = "_submit" /\ (last'.args.amount = 0 \/ last'.args.price = 0))
       => /\ last'.ret = 0
          /\ last'.calls = NoCalls
          /\ UNCHANGED <<open_orders, notifs, orders, accepted>>]_vars

\* a submission of price 0 made while an order was open
C7_Witness ==
  /\ last.op = "_submit"
  /\ last.args.price = 0
  /\ last.args.amount # 0
  /\ open_orders # <<>>

\* C8: a submission that returns an order made exactly a create call followed
\* by a fetch call for that order's id, appended that one new order to
\* open_orders and enqueued one notification for it, whether or not the
\* fetched snapshot is still pending.
C8_SuccessfulSubmission ==
  [][(last'.op = "_submit" /\ last'.ret # 0)
       => LET id == last'.ret
          IN /\ last'.calls = <<Call("create_order", 0), Call("fetch_order", id)>>
             /\ orders[id] = NoOrder
             /\ orders'[id].status = "Created"
             /\ open_orders' = Append(open_orders, id)
             /\ notifs' = Append(notifs, id)
             /\ last'.notified = <<id>>]_vars

\* a submission returned an order whose fetched snapshot was already closed
C8_Witness ==
  /\ last.op = "_submit"
  /\ last.ret # 0
  /\ last.ret \in last.closedSeen

\* C9: cancel(order) first fetches the order; when the fetched snapshot meets
\* the closed condition it makes no cancel call, returns the order, and
\* leaves the orders, open_orders and the notification queue as they were.
C9_CancelOfClosedOrder ==
  [][last'.op = "cancel"
       => /\ Head(last'.calls) = Call("fetch_order", last'.args.order)
          /\ last'.args.order \in last'.closedSeen
               => /\ SelectSeq(last'.calls, IsCancelCall) = <<>>
                  /\ last'.ret = last'.args.order
                  /\ last'.notified = <<>>
                  /\ UNCHANGED <<orders, open_orders, notifs>>]_vars

\* cancel() found closed an order that was still in open_orders
C9_Witness ==
  /\ last.op = "cancel"
  /\ last.args.order \in last.closedSeen
  /\ last.args.order \in Range(open_orders)

\* the fetch of the operation answered (it did not raise)
FetchAnswered(log) == ~(Len(log.calls) = 1 /\ log.raised # "")

\* C10: cancel(order) on an order in open_orders whose fetched snapshot is
\* not closed makes exactly one cancel call; when the answer meets the
\* canceled condition the order leaves open_orders, is marked canceled and is
\* notified once; otherwise it stays in open_orders, keeps its state and
\* nothing is notified.
C10_CancelOfOpenOrder ==
  [][(/\ last'.op = "cancel"
      /\ last'.args.order \in Range(open_orders)
      /\ FetchAnswered(last')
      /\ last'.args.order \notin last'.closedSeen)
       => LET o == last'.args.order
          IN /\ Len(SelectSeq(last'.calls, IsCancelCall)) = 1
             /\ IF o \in last'.canceledSeen
                  THEN /\ open_orders' = Remove(open_orders, o)
                       /\ o \notin Range(open_orders')
                       /\ orders' = [orders EXCEPT ![o].status = "Canceled"]
                       /\ last'.notified = <<o>>
                       /\ notifs' = Append(notifs, o)
                  ELSE /\ UNCHANGED <<open_orders, orders, notifs>>
                       /\ last'.notified = <<>>]_vars

\* cancel() canceled an open order while another order stayed open
C10_Witness ==
  /\ last.op = "cancel"
  /\ last.notified = <<last.args.order>>
  /\ orders[last.args.order].status = "Canceled"
  /\ open_orders # <<>>

\* C11: cancel(order) whose cancel call is answered with a snapshot meeting
\* the canceled condition, for an order that is not in open_orders, raises
\* nothing, returns the order, notifies nothing and leaves the orders,
\* open_orders and the notification queue as they were.
C11_CancelOfAbsentOrder ==
  [][(/\ last'.op = "cancel"
      /\ last'.args.order \in last'.canceledSeen
      /\ last'.args.order \notin Range(open_orders))
       => /\ last'.raised = ""
          /\ last'.ret = last'.args.order
          /\ last'.notified = <<>>
          /\ UNCHANGED <<orders, open_orders, notifs>>]_vars

\* cancel() got a canceled answer for an order an earlier operation had
\* already canceled and taken out of open_orders
C11_Witness ==
  /\ last.op = "cancel"
  /\ last.args.order \in last.canceledSeen
  /\ last.notified = <<>>
  /\ orders[last.args.order].status = "Canceled"
  /\ last.ret = last.args.order

\* C12: a reconciliation pass never fails on a fetched snapshot that has no
\* fill list: the lookup of 'trades', the only KeyError of a pass, does not
\* raise, so the pass goes on to the closed and canceled conditions.
C12_MissingFillListIsNoError ==
  last.op = "next" => last.raised # "KeyError"

\* the balance requests of a log
IsBalanceCall(c) == c.fn = "fetch_balance"

\* the sum of the sizes of the orders ids that are on instrument d
RECURSIVE SizeOn(_, _, _)
SizeOn(ords, ids, d) ==
  IF ids = {} THEN 0
  ELSE LET o == CHOOSE x \in ids : TRUE
       IN (IF ords[o].data = d THEN ords[o].size ELSE 0)
            + SizeOn(ords, ids \ {o}, d)

\* C13: a reconciliation pass updates the position once for every order whose
\* fetched snapshot met the closed condition, by the order's size on the
\* order's instrument, marks the order completed, notifies it, takes it out
\* of open_orders and makes one balance request for it; it makes no other
\* balance request, so a pass in which no order closes makes none.
C13_ClosedPath ==
  [][last'.op = "next"
       => /\ \A o \in last'.closedSeen :
               /\ Count(last'.posUpdated, o) = 1
               /\ orders'[o].status = "Completed"
               /\ Count(notifs', o) = Count(notifs, o) + 1
               /\ o \in Range(open_orders) /\ o \notin Range(open_orders')
          /\ Range(last'.posUpdated) = last'.closedSeen
          /\ \A d \in Instruments :
               positions'[d] = positions[d] + SizeOn(orders, last'.closedSeen, d)
          /\ Len(SelectSeq(last'.calls, IsBalanceCall))
               = Cardinality(last'.closedSeen)]_vars

\* C17: a reconciliation pass takes every order whose fetched snapshot met
\* the canceled and not the closed condition out of open_orders, marks it
\* canceled and notifies it once, without a position update for it; a pass in
\* which no snapshot met the closed condition leaves every position, the
\* store's and the broker's cash and value as they were and makes no balance
\* request.
C17_CanceledPath ==
  [][last'.op = "next"
       => /\ \A o \in last'.canceledSeen \ last'.closedSeen :
               /\ o \in Range(open_orders) /\ o \notin Range(open_orders')
               /\ orders'[o].status = "Canceled"
               /\ Count(notifs', o) = Count(notifs, o) + 1
               /\ o \notin Range(last'.posUpdated)
          /\ last'.closedSeen = {}
               => /\ UNCHANGED <<positions, store, cash, value>>
                  /\ SelectSeq(last'.calls, IsBalanceCall) = <<>>]_vars

\* every order of open_orders was built by a submission, is there once and
\* is neither completed nor canceled
OpenOrdersInv ==
  \A o \in Range(open_orders) :
    /\ orders[o].status = "Created"
    /\ Count(open_orders, o) = 1

\* C18: in every reachable state every order of open_orders was built by a
\* submission, is in the list once and is neither completed nor canceled; an
\* order enters open_orders only by the submission that returns it, leaves it
\* only in the step that marks it completed or canceled, and never comes back.
C18_OpenOrdersInvariant ==
  [][/\ OpenOrdersInv /\ OpenOrdersInv'
     /\ \A o \in OrderIds :
          /\ (o \notin Range(open_orders) /\ o \in Range(open_orders'))
               => /\ last'.op = "_submit" /\ last'.ret = o
                  /\ orders[o] = NoOrder
          /\ (o \in Range(open_orders) /\ o \notin Range(open_orders'))
               => ~Terminal(orders[o]) /\ Terminal(orders'[o])]_vars

\* after a pass, one order has been canceled and another completed, and
\* both are out of open_orders
C18_Witness ==
  /\ \E o \in OrderIds : orders[o].status = "Canceled" /\ o \notin Range(open_orders)
  /\ \E o \in OrderIds : orders[o].status = "Completed" /\ o \notin Range(open_orders)
  /\ last.op = "next"

\* C20: every order the exchange accepted through _submit is in open_orders
\* or was notified as completed or canceled.
C20_NoUntrackedOrder ==
  \A id \in 1..accepted :
    \/ id \in Range(open_orders)
    \/ Terminal(orders[id]) /\ Count(notifs, id) >= 1

\* from the exchange's side, order o is terminal for good: a pass fails on no
\* exchange call, and whenever it fetches o the snapshot meets the closed or
\* the canceled condition
PermanentlyTerminal(o) ==
  last'.op = "next"
    => /\ last'.raised # "ExchangeError"
       /\ o \in Range(FetchIds(last'.calls))
            => o \in last'.closedSeen \cup last'.canceledSeen

\* C19: when passes keep being made, no exchange call of a pass fails and
\* from some point on every snapshot fetched for order o meets the closed or
\* the canceled condition, then o, once in open_orders, is eventually out of
\* open_orders, marked completed or canceled and notified, whatever the other
\* open orders and their snapshots are.
C19_TerminalOrderEventuallyRemoved ==
  \A o \in OrderIds :
    (<>[][PermanentlyTerminal(o)]_vars)
      => [](o \in Range(open_orders)
              => <>(/\ o \notin Range(open_orders)
                    /\ Terminal(orders[o])
                    /\ Count(notifs, o) >= 2))

\* C14: get_notification on an empty queue returns None and leaves it empty;
\* on a non-empty queue it returns the oldest entry and takes exactly that
\* entry out; every other operation leaves the queue as it was but for the
\* orders it passed to notify, appended at the end in the order of the calls.
C14_NotificationQueueIsFifo ==
  [][/\ last'.op = "get_notification"
          => IF notifs = <<>>
               THEN last'.ret = 0 /\ notifs' = <<>>
               ELSE /\ last'.ret = Head(notifs)
                    /\ last'.ret # 0
                    /\ notifs' = Tail(notifs)
     /\ last'.op # "get_notification"
          => notifs' = notifs \o last'.notified]_vars

\* get_notification returned one order while a different one is next in line
C14_Witness ==
  /\ last.op = "get_notification"
  /\ last.ret # 0
  /\ notifs # <<>>
  /\ Head(notifs) # last.ret

\* C15: getcash and getvalue make no exchange call, return the store's
\* cached cash and value and leave the store's figures as they are; the
\* store's figures change, and a balance request is made, only in an explicit
\* get_balance() or in a reconciliation pass that completes an order.
C15_CashAndValueAreCached ==
  [][/\ last'.op = "getcash"
          => /\ last'.calls = NoCalls
             /\ last'.ret = store._cash
             /\ cash' = Some(store._cash)
             /\ store' = store
     /\ last'.op = "getvalue"
          => /\ last'.calls = NoCalls
             /\ last'.ret = store._value
             /\ value' = Some(store._value)
             /\ store' = store
     /\ (store' # store \/ SelectSeq(last'.calls, IsBalanceCall) # <<>>)
          => \/ last'.op = "get_balance"
             \/ last'.op = "next" /\ last'.posUpdated # <<>>]_vars

\* getcash returned a figure that an earlier balance request had stored
C15_Witness ==
  /\ last.op = "getcash"
  /\ store # InitialStore
  /\ last.ret = store._cash
  /\ last.calls = NoCalls

\* the create calls of a log
Creates(log) == SelectSeq(log.calls, IsCreate)

\* what close() did for a position of amount p: one create call and, when no
\* exchange call failed, a returned order of the offsetting side and of size
\* amount
Offsets(log, ords, p, amount) ==
  /\ Len(Creates(log)) = 1
  /\ log.raised = ""
       => /\ log.ret # 0
          /\ ords[log.ret].side = (IF p > 0 THEN "sell" ELSE "buy")
          /\ abs(ords[log.ret].size) = amount

\* C16 as stated: close(owner, data, size, all=False), once the exchange has
\* answered the positions request, submits for a position of amount p # 0 one
\* order, a sell when p > 0 and a buy when p < 0, of size |size| when size is
\* given and |p| when it is None; without a position of the instrument it
\* submits nothing, returns None and raises nothing.
C16_CloseOffsetsAnySize ==
  [][(last'.op = "close" /\ ~last'.args.all /\ FetchAnswered(last'))
       => LET p == last'.args.possize
              size == last'.args.amount
          IN IF p.none
               THEN /\ last'.ret = 0 /\ last'.raised = ""
                    /\ Creates(last') = <<>>
                    /\ UNCHANGED <<orders, open_orders, notifs>>
               ELSE p.v # 0
                      => Offsets(last', orders', p.v,
                                 IF size.none THEN abs(p.v) ELSE abs(size.v))]_vars

\* C16 as amended: the same for a size that is None or not 0; with size 0
\* the submission is rejected as malformed: close() makes no create call,
\* returns None and leaves orders, open_orders and the queue as they were.
C16_CloseOffsetsPosition ==
  [][(last'.op = "close" /\ ~last'.args.all /\ FetchAnswered(last'))
       => LET p == last'.args.possize
              size == last'.args.amount
          IN IF p.none \/ (~size.none /\ size.v = 0)
               THEN /\ last'.ret = 0 /\ last'.raised = ""
                    /\ Creates(last') = <<>>
                    /\ UNCHANGED <<orders, open_orders, notifs>>
               ELSE p.v # 0
                      => Offsets(last', orders', p.v,
                                 IF size.none THEN abs(p.v) ELSE abs(size.v))]_vars

\* close() with size None on a remote position of -2 returned a buy of size 2
C16_Witness ==
  /\ last.op = "close"
  /\ last.ret # 0
  /\ last.args.amount.none
  /\ ~last.args.possize.none /\ last.args.possize.v = 0 - 2
  /\ orders[last.ret].side = "buy"
  /\ orders[last.ret].size = 2

====
